---- MODULE Spec2Model ----
(***************************************************************************)
(* Model of package async (ensemble/async/async.go): the launch-request    *)
(* customizations, the Kafka option on the minion handle, RunContainer     *)
(* and the WebSocket endpoint resolver WSMockEndpoint.                     *)
(*                                                                         *)
(* Go strings that the code inspects or rewrites (extraProtocols, the      *)
(* service, version and operation names, host and port, environment        *)
(* values) are sequences of one-character strings.  Map keys, network      *)
(* names, image names and error values are atomic TLA+ strings.            *)
(*                                                                         *)
(* async.go holds two revisions of the package (lines 1-154 and 156-276).  *)
(* They differ only in the signature of the customization closures; the    *)
(* model follows the first, the one that has WSMockEndpoint.               *)
(*                                                                         *)
(* RunContainer and WSMockEndpoint read no package state, so one call of   *)
(* each per behaviour covers every call; their records run and ws keep     *)
(* the arguments, the runtime's answers, the runtime calls made and the    *)
(* returned values.                                                        *)
(***************************************************************************)
EXTENDS Integers, Sequences, FiniteSets, TLC

VARIABLES
    req,        \* the GenericContainerRequest being customized by the caller
    reqInit,    \* the value req had before any customization was applied
    applied,    \* the customizations applied to req so far, in order
    minion,     \* the MicrocksAysncMinionContainer handle the options act on
    kafkaLog,   \* the connections WithKafkaConnection was applied with, in order
    run,        \* the last RunContainer call: arguments, runtime calls, results
    ws          \* the last WSMockEndpoint call: arguments, runtime calls, results

vars == <<req, reqInit, applied, minion, kafkaLog, run, ws>>

----------------------------------------------------------------------------
(* Bounds of the model.                                                    *)

MaxStrLen == 2      \* longest generated service / version name
MaxOpLen == 3       \* longest generated operation name
MaxApplied == 3     \* customizations applied to one request
MaxKafka == 2       \* WithKafkaConnection applications on one handle
MaxOpts == 2        \* customizations passed to one RunContainer call

----------------------------------------------------------------------------
(* Package constants.                                                      *)

DefaultImage == "quay.io/microcks/microcks-uber-async-minion:latest"

DefaultHttpPort == <<"8","0","8","1","/","t","c","p">>

KafkaTag == <<",","K","A","F","K","A">>

----------------------------------------------------------------------------
(* The functions of package strings the code uses.                         *)

\* strings.Index(s, c) for a one-character c: 0-based index of the first
\* occurrence, -1 when there is none.
Index(s, c) ==
    IF \E i \in 1..Len(s) : s[i] = c
    THEN (CHOOSE i \in 1..Len(s) : s[i] = c /\ \A j \in 1..(i-1) : s[j] # c) - 1
    ELSE -1

\* strings.Contains(s, substr)
Contains(s, substr) ==
    \E i \in 0..(Len(s) - Len(substr)) : SubSeq(s, i + 1, i + Len(substr)) = substr

\* strings.Join(elems, "") : concatenation of the elements.
RECURSIVE Join(_)
Join(elems) ==
    IF elems = <<>> THEN <<>> ELSE Head(elems) \o Join(Tail(elems))

\* strings.Split(s, c) for a one-character separator c: the substrings
\* between the separators, Index-many cuts, always at least one element.
RECURSIVE Split(_, _)
Split(s, c) ==
    LET i == Index(s, c) IN
    IF i = -1 THEN <<s>>
    ELSE <<SubSeq(s, 1, i)>> \o Split(SubSeq(s, i + 2, Len(s)), c)

\* strings.ReplaceAll(s, old, new) for one-character old and new.
ReplaceAll(s, old, new) ==
    [i \in 1..Len(s) |-> IF s[i] = old THEN new ELSE s[i]]

\* nat.Port.Port(): the part of "49213/tcp" before the first "/".
PortOf(p) ==
    Split(p, "/")[1]

----------------------------------------------------------------------------
(* WSMockEndpoint.                                                         *)

Nil == "nil"

\* All strings over the alphabet A of length at most n.
RECURSIVE StringsUpTo(_, _)
StringsUpTo(A, n) ==
    IF n = 0 THEN {<<>>}
    ELSE LET S == StringsUpTo(A, n - 1) IN
         S \cup {Append(s, a) : s \in {t \in S : Len(t) = n - 1}, a \in A}

Localhost == <<"l","o","c","a","l","h","o","s","t">>
Port49213 == <<"4","9","2","1","3","/","t","c","p">>
Pets == <<"P","e","t","s">>
V1 == <<"v","1">>
Subscribe == <<"s","u","b","s","c","r","i","b","e">>
OrderService == <<"O","r","d","e","r"," ","S","e","r","v","i","c","e">>
Beta == <<"1",".","0"," ","b","e","t","a">>
PostOrders == <<"P","O","S","T"," ","/","o","r","d","e","r","s">>

ServiceNames == StringsUpTo({" ", "a"}, MaxStrLen) \cup {Pets, OrderService}
Versions == StringsUpTo({" ", "1"}, MaxStrLen) \cup {V1, Beta}
PostOrdersId == <<"P","O","S","T"," ","/","o"," ","i","d">>
OperationNames ==
    StringsUpTo({" ", "a", "/"}, MaxOpLen) \cup {Subscribe, PostOrders, PostOrdersId}

\* What container.Host(ctx) and container.MappedPort(ctx, port) may answer.
HostAnswers ==
    {[val |-> h, err |-> Nil] : h \in {Localhost, <<"h">>}}
        \cup {[val |-> <<>>, err |-> e] : e \in {"errNotRunning", "errDaemon"}}

PortAnswers ==
    {[val |-> p, err |-> Nil] : p \in {Port49213, <<"1","/","t","c","p">>}}
        \cup {[val |-> <<>>, err |-> e] : e \in {"errNotMapped", "errDaemon"}}

\* WSMockEndpoint resolving the port before it looks at the host's error.
WSMockEndpointPortFirst(service, version, operationName, hostAns, portAns) ==
    IF portAns.err # Nil
    THEN [url |-> <<>>, err |-> portAns.err, queries |-> <<"Host", "MappedPort">>]
    ELSE IF hostAns.err # Nil
    THEN [url |-> <<>>, err |-> hostAns.err, queries |-> <<"Host", "MappedPort">>]
    ELSE [url |-> <<>>, err |-> Nil, queries |-> <<"Host", "MappedPort">>]

\* WSMockEndpoint leaving the spaces of the version in place.
WSMockEndpointRawVersion(service, version, operationName, hostAns, portAns) ==
    IF hostAns.err # Nil
    THEN [url |-> <<>>, err |-> hostAns.err, queries |-> <<"Host">>]
    ELSE IF portAns.err # Nil
    THEN [url |-> <<>>, err |-> portAns.err, queries |-> <<"Host", "MappedPort">>]
    ELSE LET op == IF Index(operationName, " ") # -1
                   THEN Split(operationName, " ")[2]
                   ELSE operationName
         IN [url |-> Join(<< <<"w","s",":","/","/">>, hostAns.val, <<":">>,
                             PortOf(portAns.val),
                             <<"/","a","p","i","/","w","s","/">>,
                             ReplaceAll(service, " ", "+"), <<"/">>,
                             version, <<"/">>,
                             op >>),
             err |-> Nil,
             queries |-> <<"Host", "MappedPort">>]

\* WSMockEndpoint keeping the first token of the operation name.
WSMockEndpointFirstToken(service, version, operationName, hostAns, portAns) ==
    IF hostAns.err # Nil
    THEN [url |-> <<>>, err |-> hostAns.err, queries |-> <<"Host">>]
    ELSE IF portAns.err # Nil
    THEN [url |-> <<>>, err |-> portAns.err, queries |-> <<"Host", "MappedPort">>]
    ELSE LET op == IF Index(operationName, " ") # -1
                   THEN Split(operationName, " ")[1]
                   ELSE operationName
         IN [url |-> Join(<< <<"w","s",":","/","/">>, hostAns.val, <<":">>,
                             PortOf(portAns.val),
                             <<"/","a","p","i","/","w","s","/">>,
                             ReplaceAll(service, " ", "+"), <<"/">>,
                             ReplaceAll(version, " ", "+"), <<"/">>,
                             op >>),
             err |-> Nil,
             queries |-> <<"Host", "MappedPort">>]

\* WSMockEndpoint keeping everything after the first space.
WSMockEndpointRestOfName(service, version, operationName, hostAns, portAns) ==
    IF hostAns.err # Nil
    THEN [url |-> <<>>, err |-> hostAns.err, queries |-> <<"Host">>]
    ELSE IF portAns.err # Nil
    THEN [url |-> <<>>, err |-> portAns.err, queries |-> <<"Host", "MappedPort">>]
    ELSE LET op == IF Index(operationName, " ") # -1
                   THEN SubSeq(operationName, Index(operationName, " ") + 2, Len(operationName))
                   ELSE operationName
         IN [url |-> Join(<< <<"w","s",":","/","/">>, hostAns.val, <<":">>,
                             PortOf(portAns.val),
                             <<"/","a","p","i","/","w","s","/">>,
                             ReplaceAll(service, " ", "+"), <<"/">>,
                             ReplaceAll(version, " ", "+"), <<"/">>,
                             op >>),
             err |-> Nil,
             queries |-> <<"Host", "MappedPort">>]

\* The body of WSMockEndpoint: the result pair and the runtime queries made.
WSMockEndpointBody(service, version, operationName, hostAns, portAns) ==
    IF hostAns.err # Nil
    THEN [url |-> <<>>, err |-> hostAns.err, queries |-> <<"Host">>]
    ELSE IF portAns.err # Nil
    THEN [url |-> <<>>, err |-> portAns.err, queries |-> <<"Host", "MappedPort">>]
    ELSE LET op == IF Index(operationName, " ") # -1
                   THEN Split(operationName, " ")[2]
                   ELSE operationName
         IN [url |-> Join(<< <<"w","s",":","/","/">>, hostAns.val, <<":">>,
                             PortOf(portAns.val),
                             <<"/","a","p","i","/","w","s","/">>,
                             ReplaceAll(service, " ", "+"), <<"/">>,
                             ReplaceAll(version, " ", "+"), <<"/">>,
                             op >>),
             err |-> Nil,
             queries |-> <<"Host", "MappedPort">>]

\* A call about to be made: its arguments and what the runtime will answer.
WsCalls ==
    [called : {FALSE}, service : ServiceNames, version : Versions,
     operationName : OperationNames, hostAns : HostAnswers, portAns : PortAnswers,
     ret : {[url |-> <<>>, err |-> Nil, queries |-> <<>>]}]

WsIdle ==
    [called |-> FALSE, service |-> <<>>, version |-> <<>>, operationName |-> <<>>,
     hostAns |-> [val |-> <<>>, err |-> Nil], portAns |-> [val |-> <<>>, err |-> Nil],
     ret |-> [url |-> <<>>, err |-> Nil, queries |-> <<>>]]

\* The pending WSMockEndpoint call runs to completion.
WSMockEndpoint ==
    /\ minion.Container # Nil
    /\ ~ws.called
    /\ ws' = [ws EXCEPT
                !.called = TRUE,
                !.ret = WSMockEndpointBody(ws.service, ws.version, ws.operationName,
                                           ws.hostAns, ws.portAns)]
    /\ UNCHANGED <<req, reqInit, applied, minion, kafkaLog, run>>

----------------------------------------------------------------------------
(* The launch request and its customizations.                              *)

\* A Go map: nil, or a finite function.  make(map) is the empty non-nil map.
NilMap ==
    [isNil |-> TRUE, m |-> <<>>]

MakeMap ==
    [isNil |-> FALSE, m |-> <<>>]

\* m[k] = v on a non-nil map.
MapSet(map, k, v) ==
    [isNil |-> FALSE,
     m |-> [x \in (DOMAIN map.m) \cup {k} |-> IF x = k THEN v ELSE map.m[x]]]

\* The zero value of testcontainers.GenericContainerRequest.
ZeroRequest ==
    [Image |-> "", ExposedPorts |-> <<>>, WaitingFor |-> "", Env |-> NilMap,
     Started |-> FALSE, Networks |-> <<>>, NetworkAliases |-> NilMap]

\* The request RunContainer assembles before applying the options.
DefaultRequest(microcksHostPort) ==
    [ZeroRequest EXCEPT
        !.Image = DefaultImage,
        !.ExposedPorts = <<DefaultHttpPort>>,
        !.WaitingFor = "Profile prod activated",
        !.Env = MapSet(MakeMap, "MICROCKS_HOST_PORT", microcksHostPort),
        !.Started = TRUE]

\* The closure returned by WithNetwork(networkName), applied to r.
WithNetworkBody(networkName, r) ==
    [r EXCEPT !.Networks = Append(@, networkName)]

\* WithNetworkAlias adding the alias to the network's list.
WithNetworkAliasAppend(networkName, networkAlias, r) ==
    LET aliases == IF r.NetworkAliases.isNil THEN MakeMap ELSE r.NetworkAliases
        old == IF networkName \in DOMAIN aliases.m THEN aliases.m[networkName] ELSE <<>>
    IN [r EXCEPT !.NetworkAliases =
                    MapSet(aliases, networkName, Append(old, networkAlias))]

\* The closure returned by WithNetworkAlias(networkName, networkAlias).
WithNetworkAliasBody(networkName, networkAlias, r) ==
    LET aliases == IF r.NetworkAliases.isNil THEN MakeMap ELSE r.NetworkAliases
    IN [r EXCEPT !.NetworkAliases = MapSet(aliases, networkName, <<networkAlias>>)]

\* WithEnv keeping the value of a key that is already set.
WithEnvKeepFirst(key, value, r) ==
    LET env == IF r.Env.isNil THEN MakeMap ELSE r.Env
    IN IF key \in DOMAIN env.m THEN [r EXCEPT !.Env = env]
       ELSE [r EXCEPT !.Env = MapSet(env, key, value)]

\* WithEnv extending the value of a key that is already set.
WithEnvExtend(key, value, r) ==
    LET env == IF r.Env.isNil THEN MakeMap ELSE r.Env
        old == IF key \in DOMAIN env.m THEN env.m[key] ELSE <<>>
    IN [r EXCEPT !.Env = MapSet(env, key, old \o value)]

\* The closure returned by WithEnv(key, value).
WithEnvBody(key, value, r) ==
    LET env == IF r.Env.isNil THEN MakeMap ELSE r.Env
    IN [r EXCEPT !.Env = MapSet(env, key, value)]

\* The customization values: what the With... constructors capture.
WithNetwork(networkName) ==
    [fn |-> "WithNetwork", networkName |-> networkName]

WithNetworkAlias(networkName, networkAlias) ==
    [fn |-> "WithNetworkAlias", networkName |-> networkName,
     networkAlias |-> networkAlias]

WithEnv(key, value) ==
    [fn |-> "WithEnv", key |-> key, value |-> value]

\* opt.Customize(&r)
Customize(opt, r) ==
    CASE opt.fn = "WithNetwork" -> WithNetworkBody(opt.networkName, r)
      [] opt.fn = "WithNetworkAlias" ->
            WithNetworkAliasBody(opt.networkName, opt.networkAlias, r)
      [] opt.fn = "WithEnv" -> WithEnvBody(opt.key, opt.value, r)

NetworkNames == {"net1", "net2"}
AliasNames == {"alias1", "alias2"}
EnvKeys == {"MICROCKS_HOST_PORT", "LOG_LEVEL"}
EnvValues == {<<"x">>, <<"y">>}
HostPorts == {<<"m",":","8">>, <<"x">>}

Customizers ==
    {WithNetwork(n) : n \in NetworkNames}
        \cup {WithNetworkAlias(n, a) : n \in NetworkNames, a \in AliasNames}
        \cup {WithEnv(k, v) : k \in EnvKeys, v \in EnvValues}

\* One customization applied by the caller to the request under configuration.
ApplyCustomizer(opt) ==
    /\ Len(applied) < MaxApplied
    /\ req' = Customize(opt, req)
    /\ applied' = Append(applied, opt)
    /\ UNCHANGED <<reqInit, minion, kafkaLog, run, ws>>

----------------------------------------------------------------------------
(* The minion handle and the Kafka option.                                 *)

\* ContainerOptions.Add
Add(list, opt) ==
    Append(list, opt)

\* The zero value of MicrocksAysncMinionContainer.
ZeroMinion ==
    [Container |-> Nil, extraProtocols |-> <<>>, containerOptions |-> <<>>]

KafkaConnections ==
    {[BootstrapServers |-> b] : b \in {<<"k",":","9">>, <<"b",":","1">>}}

\* WithKafkaConnection appending the tag without the containment check.
WithKafkaConnectionUnguarded(connection, m) ==
    LET protocols == Join(<<m.extraProtocols, KafkaTag>>)
    IN [m EXCEPT
          !.extraProtocols = protocols,
          !.containerOptions =
              Append(Append(@, [fn |-> "WithEnv", key |-> "ASYNC_PROTOCOLS",
                                value |-> protocols]),
                     [fn |-> "WithEnv", key |-> "KAFKA_BOOTSTRAP_SERVER",
                      value |-> connection.BootstrapServers])]

\* The closure returned by WithKafkaConnection(connection), applied to m.
WithKafkaConnectionBody(connection, m) ==
    LET protocols == IF ~Contains(m.extraProtocols, KafkaTag)
                     THEN Join(<<m.extraProtocols, KafkaTag>>)
                     ELSE m.extraProtocols
    IN [m EXCEPT
          !.extraProtocols = protocols,
          !.containerOptions =
              Add(Add(@, WithEnv("ASYNC_PROTOCOLS", protocols)),
                  WithEnv("KAFKA_BOOTSTRAP_SERVER", connection.BootstrapServers))]

WithKafkaConnection(connection) ==
    /\ Len(kafkaLog) < MaxKafka
    /\ minion' = WithKafkaConnectionBody(connection, minion)
    /\ kafkaLog' = Append(kafkaLog, connection)
    /\ UNCHANGED <<req, reqInit, applied, run, ws>>

----------------------------------------------------------------------------
(* RunContainer.                                                           *)

\* The options applied last to first.
RECURSIVE CustomizeAllReversed(_, _)
CustomizeAllReversed(opts, r) ==
    IF opts = <<>> THEN r
    ELSE Customize(Head(opts), CustomizeAllReversed(Tail(opts), r))

\* for _, opt := range opts { opt.Customize(&req) }
RECURSIVE CustomizeAll(_, _)
CustomizeAll(opts, r) ==
    IF opts = <<>> THEN r
    ELSE CustomizeAll(Tail(opts), Customize(Head(opts), r))

\* What testcontainers.GenericContainer(ctx, req) may answer: a started
\* container, or an error with or without a partially created container.
CreateAnswers ==
    {[container |-> "c1", err |-> Nil],
     [container |-> Nil, err |-> "errCreate"],
     [container |-> "c1", err |-> "errStart"]}

\* The body of RunContainer: the requests handed to the runtime's
\* create-and-start call, and the returned (handle, error) pair.
RunContainerBody(microcksHostPort, opts, answer) ==
    LET r == CustomizeAll(opts, DefaultRequest(microcksHostPort))
    IN IF answer.err # Nil
       THEN [requests |-> <<r>>, handleIsNil |-> TRUE, handle |-> ZeroMinion,
             err |-> answer.err]
       ELSE [requests |-> <<r>>, handleIsNil |-> FALSE,
             handle |-> [ZeroMinion EXCEPT !.Container = answer.container],
             err |-> Nil]

RECURSIVE SeqsUpTo(_, _)
SeqsUpTo(S, n) ==
    IF n = 0 THEN {<<>>}
    ELSE LET T == SeqsUpTo(S, n - 1) IN
         T \cup {Append(t, x) : t \in {u \in T : Len(u) = n - 1}, x \in S}

\* The customizations a RunContainer call is given.
LaunchCustomizers ==
    {WithNetwork("net1"), WithNetwork("net2"), WithNetworkAlias("net1", "alias1"),
     WithEnv("MICROCKS_HOST_PORT", <<"x">>), WithEnv("MICROCKS_HOST_PORT", <<"y">>),
     WithEnv("LOG_LEVEL", <<"x">>)}

RunIdle ==
    [called |-> FALSE, microcksHostPort |-> <<>>, opts |-> <<>>,
     answer |-> [container |-> Nil, err |-> Nil], kafkaBefore |-> <<>>,
     ret |-> [requests |-> <<>>, handleIsNil |-> TRUE, handle |-> ZeroMinion,
              err |-> Nil]]

\* A RunContainer call.  On success the caller goes on with the returned handle.
RunContainer(microcksHostPort, opts, answer) ==
    LET ret == RunContainerBody(microcksHostPort, opts, answer) IN
    /\ ~run.called
    /\ run' = [called |-> TRUE, microcksHostPort |-> microcksHostPort,
               opts |-> opts, answer |-> answer, kafkaBefore |-> kafkaLog,
               ret |-> ret]
    /\ IF ret.handleIsNil
       THEN UNCHANGED <<minion, kafkaLog>>
       ELSE minion' = ret.handle /\ kafkaLog' = <<>>
    /\ UNCHANGED <<req, reqInit, applied, ws>>

----------------------------------------------------------------------------
(* Specifications.                                                         *)

InitRequests ==
    {ZeroRequest} \cup {DefaultRequest(hp) : hp \in HostPorts}

Init ==
    /\ req \in InitRequests
    /\ reqInit = req
    /\ applied = <<>>
    /\ minion = ZeroMinion
    /\ kafkaLog = <<>>
    /\ run = RunIdle
    /\ ws = WsIdle

\* Configuration: customizations on a request, the Kafka option on a handle.
NextConfig ==
    \/ \E opt \in Customizers : ApplyCustomizer(opt)
    \/ \E connection \in KafkaConnections : WithKafkaConnection(connection)

SpecConfig == Init /\ [][NextConfig]_vars

InitLaunch ==
    /\ req = ZeroRequest
    /\ reqInit = req
    /\ applied = <<>>
    /\ minion = ZeroMinion
    /\ kafkaLog = <<>>
    /\ run = RunIdle
    /\ ws = WsIdle

\* Launch: the Kafka option on a handle, and RunContainer.
NextLaunch ==
    \/ \E connection \in KafkaConnections : WithKafkaConnection(connection)
    \/ \E hp \in HostPorts, opts \in SeqsUpTo(LaunchCustomizers, MaxOpts),
          answer \in CreateAnswers : RunContainer(hp, opts, answer)

SpecLaunch == InitLaunch /\ [][NextLaunch]_vars

\* Endpoint resolution: one call of WSMockEndpoint on a container handle.
InitEndpoint ==
    /\ req = ZeroRequest
    /\ reqInit = req
    /\ applied = <<>>
    /\ minion = [ZeroMinion EXCEPT !.Container = "c1"]
    /\ kafkaLog = <<>>
    /\ run = RunIdle
    /\ ws \in WsCalls

NextEndpoint ==
    WSMockEndpoint

SpecEndpoint == InitEndpoint /\ [][NextEndpoint]_vars

\* Launch, then endpoint resolution on the returned handle.
InitFailures ==
    /\ req = ZeroRequest
    /\ reqInit = req
    /\ applied = <<>>
    /\ minion = ZeroMinion
    /\ kafkaLog = <<>>
    /\ run = RunIdle
    /\ ws \in {c \in WsCalls : /\ c.service = Pets
                                /\ c.version = V1
                                /\ c.operationName \in {Subscribe, PostOrders}}

NextFailures ==
    \/ \E hp \in HostPorts, opts \in SeqsUpTo(LaunchCustomizers, MaxOpts),
          answer \in CreateAnswers : RunContainer(hp, opts, answer)
    \/ WSMockEndpoint

SpecFailures == InitFailures /\ [][NextFailures]_vars

Next ==
    NextConfig \/ NextLaunch \/ NextEndpoint

Spec == Init /\ [][Next]_vars

----------------------------------------------------------------------------
(* Properties.                                                             *)

\* The request the runtime's create-and-start call received.
LaunchedRequest ==
    run.ret.requests[1]

\* C1: when a Kafka connection was configured on the handle before the
\* launch, the environment of the request handed to the runtime's
\* create-and-start call holds ASYNC_PROTOCOLS (the protocol tag string) and
\* KAFKA_BOOTSTRAP_SERVER (the connection's bootstrap servers); when none
\* was configured it holds neither key.
C1_KafkaEnvReachesLaunchRequest ==
    run.called =>
        LET env == LaunchedRequest.Env.m IN
        IF run.kafkaBefore # <<>>
        THEN /\ "ASYNC_PROTOCOLS" \in DOMAIN env
             /\ env["ASYNC_PROTOCOLS"] = KafkaTag
             /\ "KAFKA_BOOTSTRAP_SERVER" \in DOMAIN env
             /\ env["KAFKA_BOOTSTRAP_SERVER"] =
                    run.kafkaBefore[Len(run.kafkaBefore)].BootstrapServers
        ELSE /\ "ASYNC_PROTOCOLS" \notin DOMAIN env
             /\ "KAFKA_BOOTSTRAP_SERVER" \notin DOMAIN env

\* The number of places at which sub occurs in s.
Occurrences(s, sub) ==
    Cardinality({i \in 1..Len(s) :
                    /\ i + Len(sub) - 1 <= Len(s)
                    /\ \A j \in 1..Len(sub) : s[i + j - 1] = sub[j]})

\* C2: however often WithKafkaConnection was applied to a handle, and with
\* whatever connections, extraProtocols holds ",KAFKA" at most once, and
\* exactly once as soon as it was applied at all.
C2_KafkaTagAtMostOnce ==
    /\ Occurrences(minion.extraProtocols, KafkaTag) <= 1
    /\ kafkaLog # <<>> => Occurrences(minion.extraProtocols, KafkaTag) = 1

C2_Witness ==
    /\ Len(kafkaLog) = 2
    /\ kafkaLog[1] # kafkaLog[2]
    /\ Occurrences(minion.extraProtocols, KafkaTag) = 1

\* The positions of applied at which the customization satisfies P.
Positions(P(_)) ==
    {i \in 1..Len(applied) : P(applied[i])}

Max(S) ==
    CHOOSE x \in S : \A y \in S : y <= x

\* C3: after any sequence of WithEnv (and other) customizations, every key
\* some WithEnv named holds the value of the last WithEnv that named it, every
\* other key is present or absent with the value it had before, and the
\* mapping is nil only if it was nil before and no WithEnv was applied.
C3_LastWithEnvWins ==
    LET IsEnv(c) == c.fn = "WithEnv"
        keys == EnvKeys \cup DOMAIN req.Env.m \cup DOMAIN reqInit.Env.m
    IN /\ \A k \in keys :
            LET IsEnvK(c) == c.fn = "WithEnv" /\ c.key = k
                at == Positions(IsEnvK)
            IN IF at # {}
               THEN /\ k \in DOMAIN req.Env.m
                    /\ req.Env.m[k] = applied[Max(at)].value
               ELSE /\ k \in DOMAIN req.Env.m <=> k \in DOMAIN reqInit.Env.m
                    /\ k \in DOMAIN req.Env.m => req.Env.m[k] = reqInit.Env.m[k]
       /\ req.Env.isNil <=> (reqInit.Env.isNil /\ Positions(IsEnv) = {})

C3_Witness ==
    /\ reqInit.Env.isNil
    /\ Len(applied) = 3
    /\ \A i \in 1..3 : applied[i].fn = "WithEnv"
    /\ applied[1].key = applied[3].key
    /\ applied[1].value # applied[3].value
    /\ applied[2].key # applied[1].key
    /\ req.Env.m[applied[1].key] = applied[3].value

\* C4: after any sequence of WithNetworkAlias (and other) customizations,
\* the alias list of every network some WithNetworkAlias named is the
\* one-element list with the alias of the last WithNetworkAlias that named
\* it, and every other network has the alias list it had before.
C4_LastAliasOnly ==
    LET old == reqInit.NetworkAliases.m
        now == req.NetworkAliases.m
    IN \A n \in NetworkNames \cup DOMAIN now \cup DOMAIN old :
            LET IsAliasN(c) == c.fn = "WithNetworkAlias" /\ c.networkName = n
                at == Positions(IsAliasN)
            IN IF at # {}
               THEN /\ n \in DOMAIN now
                    /\ Len(now[n]) = 1
                    /\ now[n][1] = applied[Max(at)].networkAlias
               ELSE /\ n \in DOMAIN now <=> n \in DOMAIN old
                    /\ n \in DOMAIN now => now[n] = old[n]

C4_Witness ==
    /\ Len(applied) = 3
    /\ \A i \in 1..3 : applied[i].fn = "WithNetworkAlias"
    /\ applied[1].networkName = applied[3].networkName
    /\ applied[1].networkAlias # applied[3].networkAlias
    /\ applied[2].networkName # applied[1].networkName
    /\ req.NetworkAliases.m[applied[1].networkName] = <<applied[3].networkAlias>>

\* The last WSMockEndpoint call found both the host and the mapped port.
Resolved ==
    ws.called /\ ws.hostAns.err = Nil /\ ws.portAns.err = Nil

\* s with "+" in the place of every space, built one character at a time.
RECURSIVE Plus(_)
Plus(s) ==
    IF s = <<>> THEN <<>>
    ELSE (IF Head(s) = " " THEN <<"+">> ELSE <<Head(s)>>) \o Plus(Tail(s))

\* The digits of a mapped port "<digits>/tcp".
Digits(p) ==
    SubSeq(p, 1, Len(p) - 4)

\* ws://{host}:{port}/api/ws/{service}/{version}/ for the last call.
UrlHead ==
    <<"w","s",":","/","/">> \o ws.hostAns.val \o <<":">> \o Digits(ws.portAns.val)
        \o <<"/","a","p","i","/","w","s","/">> \o Plus(ws.service) \o <<"/">>
        \o Plus(ws.version) \o <<"/">>

\* The operation segment: what follows the head in the returned URL.
OperationSegment ==
    SubSeq(ws.ret.url, Len(UrlHead) + 1, Len(ws.ret.url))

HasSpace(s) ==
    \E i \in 1..Len(s) : s[i] = " "

\* C5: when host and port resolve, WSMockEndpoint returns no error and the
\* URL ws://{host}:{port}/api/ws/{service}/{version}/{operation} with every
\* space of service and of version replaced by "+"; an operation name without
\* a space, and empty names, are interpolated as they are.
C5_UrlFormat ==
    Resolved =>
        /\ ws.ret.err = Nil
        /\ Len(ws.ret.url) >= Len(UrlHead)
        /\ SubSeq(ws.ret.url, 1, Len(UrlHead)) = UrlHead
        /\ ~HasSpace(ws.operationName) => ws.ret.url = UrlHead \o ws.operationName
        /\ (/\ ws.hostAns.val = Localhost
            /\ ws.portAns.val = Port49213
            /\ ws.operationName = Subscribe) =>
                /\ (ws.service = Pets /\ ws.version = V1) =>
                      ws.ret.url =
                        <<"w","s",":","/","/","l","o","c","a","l","h","o","s","t",
                          ":","4","9","2","1","3","/","a","p","i","/","w","s","/",
                          "P","e","t","s","/","v","1","/",
                          "s","u","b","s","c","r","i","b","e">>
                /\ (ws.service = OrderService /\ ws.version = Beta) =>
                      ws.ret.url =
                        <<"w","s",":","/","/","l","o","c","a","l","h","o","s","t",
                          ":","4","9","2","1","3","/","a","p","i","/","w","s","/",
                          "O","r","d","e","r","+","S","e","r","v","i","c","e","/",
                          "1",".","0","+","b","e","t","a","/",
                          "s","u","b","s","c","r","i","b","e">>
        /\ (/\ ws.hostAns.val = <<"h">>
            /\ ws.portAns.val = <<"1","/","t","c","p">>
            /\ ws.service = <<>> /\ ws.version = <<>> /\ ws.operationName = <<>>) =>
                ws.ret.url = <<"w","s",":","/","/","h",":","1",
                               "/","a","p","i","/","w","s","/","/","/">>

C5_Witness ==
    /\ Resolved
    /\ ws.hostAns.val = Localhost
    /\ ws.portAns.val = Port49213
    /\ ws.service = OrderService
    /\ ws.version = Beta
    /\ ws.operationName = Subscribe
    /\ Len(ws.ret.url) = 60

\* C6 as claimed: for operationName "POST /orders" the operation segment of
\* the returned URL is "orders", so that the URL ends with
\* /{service}/{version}/orders.
C6_SegmentIsOrders ==
    (Resolved /\ ws.operationName = PostOrders) =>
        ws.ret.url = UrlHead \o <<"o","r","d","e","r","s">>

\* C6 as amended: for operationName "POST /orders" the operation segment of
\* the returned URL is "/orders" (the verb and the space are dropped, the
\* leading slash of the path is kept), so that the URL ends with
\* /{service}/{version}//orders.
C6_SegmentIsSlashOrders ==
    (Resolved /\ ws.operationName = PostOrders) =>
        ws.ret.url = UrlHead \o <<"/","o","r","d","e","r","s">>

C6_Witness ==
    /\ Resolved
    /\ ws.operationName = PostOrders
    /\ ws.service = Pets
    /\ ws.version = V1
    /\ Len(ws.ret.url) > Len(UrlHead)

\* C7: a failure of the runtime is returned as it is after one attempt:
\* RunContainer made one create-and-start call and on its failure returns
\* that error and a nil handle; WSMockEndpoint on a host failure returns that
\* error and an empty URL having queried the host only, and on a port failure
\* returns that error and an empty URL having queried host and port once.
C7_FailuresSurfaceOnce ==
    /\ run.called =>
          /\ Len(run.ret.requests) = 1
          /\ run.answer.err # Nil =>
                run.ret.err = run.answer.err /\ run.ret.handleIsNil
          /\ run.answer.err = Nil =>
                /\ run.ret.err = Nil
                /\ ~run.ret.handleIsNil
                /\ run.ret.handle.Container = run.answer.container
    /\ ws.called =>
          /\ ws.hostAns.err # Nil =>
                /\ ws.ret.err = ws.hostAns.err
                /\ ws.ret.url = <<>>
                /\ ws.ret.queries = <<"Host">>
          /\ (ws.hostAns.err = Nil /\ ws.portAns.err # Nil) =>
                /\ ws.ret.err = ws.portAns.err
                /\ ws.ret.url = <<>>
                /\ ws.ret.queries = <<"Host", "MappedPort">>
          /\ Resolved =>
                ws.ret.err = Nil /\ ws.ret.queries = <<"Host", "MappedPort">>

C7_Witness ==
    /\ run.called
    /\ ws.called
    /\ ws.hostAns.err = "errNotRunning"
    /\ ws.portAns.err = "errNotMapped"
    /\ ws.ret.err = "errNotRunning"

\* The step applies opt to the request right after opt was applied to it.
Reapplied(opt) ==
    /\ applied # <<>>
    /\ applied[Len(applied)] = opt
    /\ applied' = Append(applied, opt)

\* The step applies the Kafka option with connection c right after it was
\* applied to the handle with c.
KafkaReapplied(c) ==
    /\ kafkaLog # <<>>
    /\ kafkaLog[Len(kafkaLog)] = c
    /\ kafkaLog' = Append(kafkaLog, c)

\* C8 as claimed: applying a customization a second time in a row changes
\* neither the launch request nor the handle.
C8_AllIdempotent ==
    [][/\ \A opt \in Customizers : Reapplied(opt) => req' = req
       /\ \A c \in KafkaConnections : KafkaReapplied(c) => minion' = minion]_vars

\* C8 as amended: WithNetworkAlias and WithEnv applied a second time in a
\* row leave the launch request as it is; WithNetwork applied again appends
\* the network name once more; WithKafkaConnection applied again leaves
\* extraProtocols as it is and queues two more customizations on the handle.
C8_IdempotentWhereOverwriting ==
    [][/\ \A opt \in Customizers :
            Reapplied(opt) =>
                IF opt.fn = "WithNetwork"
                THEN /\ req'.Networks = Append(req.Networks, opt.networkName)
                     /\ req' = [req EXCEPT !.Networks = req'.Networks]
                ELSE req' = req
       /\ \A c \in KafkaConnections :
            KafkaReapplied(c) =>
                /\ minion'.extraProtocols = minion.extraProtocols
                /\ Len(minion'.containerOptions) = Len(minion.containerOptions) + 2
                /\ SubSeq(minion'.containerOptions, 1, Len(minion.containerOptions))
                      = minion.containerOptions
                /\ minion'.Container = minion.Container]_vars

C8_Witness ==
    /\ Len(applied) = 3
    /\ applied[1].fn = "WithEnv"
    /\ applied[2].fn = "WithEnv"
    /\ applied[2].key = applied[1].key
    /\ applied[2].value # applied[1].value
    /\ applied[3] = applied[2]
    /\ req.Env.m[applied[1].key] = applied[3].value
    /\ Len(kafkaLog) = 2
    /\ kafkaLog[1] = kafkaLog[2]

\* The values of field f of the options of kind fn among opts, in order.
RECURSIVE Given(_, _, _)
Given(opts, fn, f) ==
    IF opts = <<>> THEN <<>>
    ELSE (IF Head(opts).fn = fn THEN <<Head(opts)[f]>> ELSE <<>>)
            \o Given(Tail(opts), fn, f)

\* C9: the one request RunContainer hands to the runtime has the default
\* image, the one exposed port 8081/tcp and Started set; its networks are the
\* networks of the supplied WithNetwork options, once each and in the order
\* given; MICROCKS_HOST_PORT is always set, to the value of the last supplied
\* WithEnv naming it, or else to microcksHostPort.
C9_DefaultsThenOptionsInOrder ==
    run.called =>
        LET r == LaunchedRequest
            IsHostPort(i) == /\ run.opts[i].fn = "WithEnv"
                             /\ run.opts[i].key = "MICROCKS_HOST_PORT"
            at == {i \in 1..Len(run.opts) : IsHostPort(i)}
        IN /\ Len(run.ret.requests) = 1
           /\ r.Image = "quay.io/microcks/microcks-uber-async-minion:latest"
           /\ r.ExposedPorts = << <<"8","0","8","1","/","t","c","p">> >>
           /\ r.Started
           /\ r.Networks = Given(run.opts, "WithNetwork", "networkName")
           /\ ~r.Env.isNil
           /\ "MICROCKS_HOST_PORT" \in DOMAIN r.Env.m
           /\ r.Env.m["MICROCKS_HOST_PORT"] =
                 IF at = {} THEN run.microcksHostPort ELSE run.opts[Max(at)].value

C9_Witness ==
    /\ run.called
    /\ Len(run.opts) = 2
    /\ run.opts[1] = WithEnv("MICROCKS_HOST_PORT", <<"x">>)
    /\ run.opts[2] = WithEnv("MICROCKS_HOST_PORT", <<"y">>)
    /\ run.microcksHostPort = <<"m",":","8">>
    /\ LaunchedRequest.Env.m["MICROCKS_HOST_PORT"] = <<"y">>

\* C10: the operation segment of the returned URL is operationName when it
\* has no space; otherwise it is what stands between the first space of
\* operationName and its next space (or its end): the second element of the
\* split on " ", empty when a space or the end follows the first space at
\* once, whatever comes after it being dropped.
C10_SecondToken ==
    Resolved =>
        LET name == ws.operationName
            spaces == {i \in 1..Len(name) : name[i] = " "}
        IN IF spaces = {}
           THEN OperationSegment = name
           ELSE LET first == CHOOSE i \in spaces : \A j \in spaces : i <= j
                    later == {i \in spaces : i > first}
                    stop == IF later = {} THEN Len(name) + 1
                            ELSE CHOOSE i \in later : \A j \in later : i <= j
                IN /\ OperationSegment = SubSeq(name, first + 1, stop - 1)
                   /\ ~HasSpace(OperationSegment)
                   /\ stop = first + 1 => OperationSegment = <<>>

C10_Witness ==
    /\ Resolved
    /\ ws.operationName = PostOrdersId
    /\ OperationSegment = <<"/","o">>

====
